---- MODULE Spec2Model ----
(***************************************************************************)
(* Model of the extraction-and-comparison engine of razancompare.py:       *)
(* extract_content_from_pptx and compare_presentations, with the text diff *)
(* of difflib.ndiff and the hash -> record dictionaries of the image diff. *)
(* Strings are sequences of one-character strings; Python dicts are        *)
(* functions whose DOMAIN is the set of keys present.                      *)
(***************************************************************************)
EXTENDS Integers, Sequences, FiniteSets, TLC

VARIABLES file1_content, file2_content, pc, exc, slides1, slides2,
          slide_count_diff, slide_count_message, min_slides, i,
          differences, identical_count, text_diff_count, image_diff_count,
          slide_differences, extra_slides, result

\* The shape loop of one slide: the shapes of the slide, the number of them
\* done, the images collected so far and where the loop stands.
VARIABLES slide_shapes, shape_index, slide_images, walk_pc

walk_vars == <<slide_shapes, shape_index, slide_images, walk_pc>>

compare_vars == <<file1_content, file2_content, pc, exc, slides1, slides2,
                  slide_count_diff, slide_count_message, min_slides, i,
                  differences, identical_count, text_diff_count, image_diff_count,
                  slide_differences, extra_slides, result>>

vars == <<compare_vars, walk_vars>>

(***************************************************************************)
(* Bounds of the input space.                                              *)
(***************************************************************************)
MaxSlides == 2
MaxImages == 2
MaxLines == 2
MaxShapes == 2

NL == "\n"

\* Sequences over S of length at most n.
SeqsUpTo(S, n) == UNION {[1..k -> S] : k \in 0..n}

Min(a, b) == IF a < b THEN a ELSE b
Max(a, b) == IF a < b THEN b ELSE a

(***************************************************************************)
(* Input files.  A file is either a container the parser rejects or a deck *)
(* of slides; a slide is given by what the shape loop collects from it:    *)
(* the list of stripped non-blank shape and cell texts, and the image      *)
(* records of its shapes.  An image record keeps its hash (a function of   *)
(* the blob, like size, width, height, format and thumbnail) and its       *)
(* debug_info (a function of where the blob was found).                    *)
(***************************************************************************)
Hashes == {"h1", "h2"}
Provenance == {"picture", "fill"}
ImagePool == [hash : Hashes, debug_info : Provenance]

\* Stripped, non-blank shape texts; the last holds two paragraphs.
ShapeTextPool == { <<"a", "b">>, <<"a", "b", "b">>, <<"b">>, <<"b", NL, "a">> }

CorruptFile == [corrupt |-> TRUE, slides |-> <<>>]
Deck(ss) == [corrupt |-> FALSE, slides |-> ss]
RawSlide(t, im) == [slide_text |-> t, slide_images |-> im]

Img(h, d) == [hash |-> h, debug_info |-> d]

\* Slides for decks of up to MaxSlides slides: without images and with, of
\* equal and of different text, with one hash held once and twice.
MainSlidePool ==
    { RawSlide(t, <<>>) : t \in { <<>>, << <<"a", "b">> >> } }
    \cup
    { RawSlide(<< <<"a", "b">> >>, im) :
        im \in { <<Img("h1", "picture")>>, <<Img("h1", "fill")>>,
                 <<Img("h1", "picture"), Img("h1", "fill")>> } }
MainFiles == {CorruptFile} \cup {Deck(ss) : ss \in SeqsUpTo(MainSlidePool, MaxSlides)}

\* One-slide decks with every list of up to MaxImages image records.
ImageFiles ==
    {CorruptFile} \cup
    {Deck(<<RawSlide(<<>>, im)>>) : im \in SeqsUpTo(ImagePool, MaxImages)}

\* One-slide decks with every list of up to MaxLines shape texts.
TextFiles ==
    {CorruptFile} \cup
    {Deck(<<RawSlide(t, <<>>)>>) : t \in SeqsUpTo(ShapeTextPool, MaxLines)}

(***************************************************************************)
(* extract_content_from_pptx                                               *)
(***************************************************************************)
RECURSIVE Join(_, _)
\* sep.join(parts)
Join(sep, parts) ==
    IF Len(parts) = 0 THEN <<>>
    ELSE IF Len(parts) = 1 THEN parts[1]
    ELSE parts[1] \o <<sep>> \o Join(sep, Tail(parts))

\* Presentation(BytesIO(file_content)) raises on a container it cannot parse.
ParseFails(file_content) == file_content.corrupt

\* extract_content_from_pptx with the slides numbered from 0.
extract_content_from_pptx_FromZero(file_content) ==
    [n \in 1..Len(file_content.slides) |->
        [slide_number |-> n - 1,
         text_content |-> Join(NL, file_content.slides[n].slide_text),
         images       |-> file_content.slides[n].slide_images,
         image_count  |-> Len(file_content.slides[n].slide_images)]]

extract_content_from_pptx(file_content) ==
    [n \in 1..Len(file_content.slides) |->
        [slide_number |-> n,
         text_content |-> Join(NL, file_content.slides[n].slide_text),
         images       |-> file_content.slides[n].slide_images,
         image_count  |-> Len(file_content.slides[n].slide_images)]]

(***************************************************************************)
(* str.splitlines, for texts whose only line boundary is "\n".             *)
(***************************************************************************)
RECURSIVE FirstNL(_, _)
\* Index of the first "\n" of s at or after p, or 0.
FirstNL(s, p) ==
    IF p > Len(s) THEN 0
    ELSE IF s[p] = NL THEN p
    ELSE FirstNL(s, p + 1)

RECURSIVE splitlines(_)
splitlines(s) ==
    IF Len(s) = 0 THEN <<>>
    ELSE LET p == FirstNL(s, 1)
         IN  IF p = 0 THEN <<s>>
             ELSE <<SubSeq(s, 1, p - 1)>> \o splitlines(SubSeq(s, p + 1, Len(s)))

(***************************************************************************)
(* difflib.SequenceMatcher over two sequences a and b, with Python's       *)
(* 0-based half-open ranges [lo, hi).  No element is junk: ndiff passes    *)
(* linejunk=None, the character junk (blank and tab) does not occur in the *)
(* lines modelled, and the autojunk heuristic needs 200 elements.          *)
(***************************************************************************)
RECURSIVE CommonPrefix(_, _, _, _, _, _)
\* Length of the longest common prefix of a[p:ahi] and b[q:bhi].
CommonPrefix(a, p, ahi, b, q, bhi) ==
    IF p < ahi /\ q < bhi /\ a[p + 1] = b[q + 1]
    THEN 1 + CommonPrefix(a, p + 1, ahi, b, q + 1, bhi)
    ELSE 0

\* The greatest element of a non-empty set of numbers, and the least.
Greatest(S) == CHOOSE k \in S : \A m \in S : m <= k
Least(S) == CHOOSE k \in S : \A m \in S : k <= m

\* The start <<p, q, k>> of the first of the longest blocks: of the starts
\* with the greatest size k, the least p, and of those the least q.
FirstLongest(sizes, k) ==
    <<Least({c[1] : c \in {d \in DOMAIN sizes : sizes[d] = k}}),
      Least({c[2] : c \in {d \in DOMAIN sizes : sizes[d] = k /\
                \A e \in DOMAIN sizes : sizes[e] = k => d[1] <= e[1]}}),
      k>>

\* The longest block a[p:p+k] = b[q:q+k] of the two ranges; of the longest,
\* the one that starts earliest in a, and of those the earliest in b.
LongestIn(sizes, alo, blo) ==
    IF DOMAIN sizes = {} \/ \A c \in DOMAIN sizes : sizes[c] = 0
    THEN <<alo, blo, 0>>
    ELSE FirstLongest(sizes, Greatest({sizes[c] : c \in DOMAIN sizes}))

find_longest_match(a, alo, ahi, b, blo, bhi) ==
    LongestIn([c \in (alo..(ahi - 1)) \X (blo..(bhi - 1)) |->
                  CommonPrefix(a, c[1], ahi, b, c[2], bhi)],
              alo, blo)

RECURSIVE MatchingBlocks(_, _, _, _, _, _)
RECURSIVE SplitAt(_, _, _, _, _, _, _)

\* The matching blocks of the two ranges in ascending order: the longest
\* match, then the same to its left and to its right.  Two blocks found this
\* way are never adjacent (the longer would have been extended), so the
\* collapsing pass of get_matching_blocks changes nothing.
MatchingBlocks(a, alo, ahi, b, blo, bhi) ==
    SplitAt(a, alo, ahi, b, blo, bhi, find_longest_match(a, alo, ahi, b, blo, bhi))

\* x is the longest match <<i, j, k>> of the two ranges.
SplitAt(a, alo, ahi, b, blo, bhi, x) ==
    IF x[3] = 0 THEN <<>>
    ELSE (IF alo < x[1] /\ blo < x[2]
          THEN MatchingBlocks(a, alo, x[1], b, blo, x[2]) ELSE <<>>)
         \o <<x>> \o
         (IF x[1] + x[3] < ahi /\ x[2] + x[3] < bhi
          THEN MatchingBlocks(a, x[1] + x[3], ahi, b, x[2] + x[3], bhi) ELSE <<>>)

\* All matching blocks, closed by the dummy block (len(a), len(b), 0).
get_matching_blocks(a, b) ==
    MatchingBlocks(a, 0, Len(a), b, 0, Len(b)) \o << <<Len(a), Len(b), 0>> >>

RECURSIVE Opcodes(_, _, _, _)
\* The opcodes from block number n on, the scan standing at (p, q).
Opcodes(blocks, n, p, q) ==
    IF n > Len(blocks) THEN <<>>
    ELSE LET ai   == blocks[n][1]
             bj   == blocks[n][2]
             size == blocks[n][3]
             tag  == IF p < ai /\ q < bj THEN "replace"
                     ELSE IF p < ai THEN "delete"
                     ELSE IF q < bj THEN "insert"
                     ELSE ""
         IN  (IF tag # "" THEN << <<tag, p, ai, q, bj>> >> ELSE <<>>)
             \o (IF size > 0
                 THEN << <<"equal", ai, ai + size, bj, bj + size>> >>
                 ELSE <<>>)
             \o Opcodes(blocks, n + 1, ai + size, bj + size)

get_opcodes(a, b) == Opcodes(get_matching_blocks(a, b), 1, 0, 0)

RECURSIVE SumSizes(_, _)
SumSizes(blocks, n) ==
    IF n > Len(blocks) THEN 0 ELSE blocks[n][3] + SumSizes(blocks, n + 1)

\* ratio() = 2.0 * matches / (len(a) + len(b)), kept as the fraction <<num, den>>.
ratio(a, b) ==
    IF Len(a) + Len(b) = 0 THEN <<1, 1>>
    ELSE <<2 * SumSizes(get_matching_blocks(a, b), 1), Len(a) + Len(b)>>

\* x > y and x < y for fractions with positive denominators.
RatioGreater(x, y) == x[1] * y[2] > y[1] * x[2]
RatioLess(x, y) == x[1] * y[2] < y[1] * x[2]

(***************************************************************************)
(* difflib.Differ, the generator behind difflib.ndiff.  A delta line is    *)
(* the two-character code followed by the line.                            *)
(***************************************************************************)
RECURSIVE Dump(_, _, _, _)
\* _dump: '%s %s' % (tag, x[n]) for n in range(lo, hi)
Dump(tag, x, lo, hi) ==
    IF lo >= hi THEN <<>>
    ELSE << <<tag, " ">> \o x[lo + 1] >> \o Dump(tag, x, lo + 1, hi)

\* _plain_replace: the shorter block is dumped first.
PlainReplace(a, alo, ahi, b, blo, bhi) ==
    IF bhi - blo < ahi - alo
    THEN Dump("+", b, blo, bhi) \o Dump("-", a, alo, ahi)
    ELSE Dump("-", a, alo, ahi) \o Dump("+", b, blo, bhi)

\* One pass of the search loop of _fancy_replace, on the pair a[i], b[j]
\* with similarity r: the first identical pair is remembered in eqi, eqj
\* (-1 for None) and a pair that beats best_ratio becomes the best.
SearchStep(st, p, q, equal, r) ==
    IF equal
    THEN IF st.eqi = -1 THEN [st EXCEPT !.eqi = p, !.eqj = q] ELSE st
    ELSE IF RatioGreater(r, st.best_ratio)
    THEN [st EXCEPT !.best_ratio = r, !.best_i = p, !.best_j = q]
    ELSE st

RECURSIVE BestPair(_, _, _, _, _, _, _, _)
\* The search loop of _fancy_replace, for j in range(blo, bhi) and within it
\* for i in range(alo, ahi), from pair number n of the nested loops on.
BestPair(a, alo, ahi, b, blo, bhi, n, st) ==
    IF n >= (ahi - alo) * (bhi - blo) THEN st
    ELSE BestPair(a, alo, ahi, b, blo, bhi, n + 1,
            SearchStep(st, alo + (n % (ahi - alo)), blo + (n \div (ahi - alo)),
                       a[alo + (n % (ahi - alo)) + 1] = b[blo + (n \div (ahi - alo)) + 1],
                       ratio(a[alo + (n % (ahi - alo)) + 1],
                             b[blo + (n \div (ahi - alo)) + 1])))

RECURSIVE Repeat(_, _)
Repeat(c, n) == IF n <= 0 THEN <<>> ELSE <<c>> \o Repeat(c, n - 1)

RECURSIVE Tags(_, _, _)
\* The atags (side = 1) or btags (side = 2) built from the character opcodes.
Tags(ops, n, side) ==
    IF n > Len(ops) THEN <<>>
    ELSE LET tag == ops[n][1]
             la  == ops[n][3] - ops[n][2]
             lb  == ops[n][5] - ops[n][4]
             len == IF side = 1 THEN la ELSE lb
             c   == IF tag = "replace" THEN "^"
                    ELSE IF tag = "delete" THEN "-"
                    ELSE IF tag = "insert" THEN "+"
                    ELSE " "
             here == IF (tag = "delete" /\ side = 2) \/ (tag = "insert" /\ side = 1)
                     THEN <<>> ELSE Repeat(c, len)
         IN  here \o Tags(ops, n + 1, side)

IsSpace(c) == c \in {" ", "\t", NL}

\* _keep_original_ws: a blank tag under a whitespace character becomes it.
keep_original_ws(s, tag_s) ==
    [n \in 1..Min(Len(s), Len(tag_s)) |->
        IF tag_s[n] = " " /\ IsSpace(s[n]) THEN s[n] ELSE tag_s[n]]

RECURSIVE rstrip(_)
rstrip(s) ==
    IF Len(s) > 0 /\ IsSpace(s[Len(s)]) THEN rstrip(SubSeq(s, 1, Len(s) - 1)) ELSE s

\* The lines _qformat yields for the stripped tag lines at and bt.
QuadLines(aline, bline, at, bt) ==
    << <<"-", " ">> \o aline >>
    \o (IF Len(at) > 0 THEN << <<"?", " ">> \o at \o <<NL>> >> ELSE <<>>)
    \o << <<"+", " ">> \o bline >>
    \o (IF Len(bt) > 0 THEN << <<"?", " ">> \o bt \o <<NL>> >> ELSE <<>>)

\* _qformat: the '-', '?', '+', '?' lines of a pair of similar lines.
qformat(aline, bline, atags, btags) ==
    QuadLines(aline, bline,
              rstrip(keep_original_ws(aline, atags)),
              rstrip(keep_original_ws(bline, btags)))

\* The intraline marking of the synch pair from its character opcodes.
MarkPair(aelt, belt, ops) == qformat(aelt, belt, Tags(ops, 1, 1), Tags(ops, 1, 2))

RECURSIVE FancyReplace(_, _, _, _, _, _)
RECURSIVE FancyHelper(_, _, _, _, _, _)

\* The diffs before the synch point, the lines of the synch pair, and the
\* diffs after it.
SynchAt(a, alo, ahi, b, blo, bhi, best_i, best_j, synched) ==
    FancyHelper(a, alo, best_i, b, blo, best_j)
    \o synched
    \o FancyHelper(a, best_i + 1, ahi, b, best_j + 1, bhi)

\* _fancy_replace after its search loop: synchronise on the most similar
\* pair of lines (ratio at least 0.75), else on the first identical pair,
\* else replace plainly.
Synchronise(a, alo, ahi, b, blo, bhi, st) ==
    IF RatioLess(st.best_ratio, <<75, 100>>)
    THEN IF st.eqi = -1
         THEN PlainReplace(a, alo, ahi, b, blo, bhi)
         ELSE SynchAt(a, alo, ahi, b, blo, bhi, st.eqi, st.eqj,
                      << <<" ", " ">> \o a[st.eqi + 1] >>)
    ELSE SynchAt(a, alo, ahi, b, blo, bhi, st.best_i, st.best_j,
                 MarkPair(a[st.best_i + 1], b[st.best_j + 1],
                          get_opcodes(a[st.best_i + 1], b[st.best_j + 1])))

FancyReplace(a, alo, ahi, b, blo, bhi) ==
    Synchronise(a, alo, ahi, b, blo, bhi,
        BestPair(a, alo, ahi, b, blo, bhi, 0,
                 [best_ratio |-> <<74, 100>>, best_i |-> -1, best_j |-> -1,
                  eqi |-> -1, eqj |-> -1]))

FancyHelper(a, alo, ahi, b, blo, bhi) ==
    IF alo < ahi
    THEN IF blo < bhi THEN FancyReplace(a, alo, ahi, b, blo, bhi)
         ELSE Dump("-", a, alo, ahi)
    ELSE IF blo < bhi THEN Dump("+", b, blo, bhi)
    ELSE <<>>

RECURSIVE Compare(_, _, _, _)
\* Differ.compare: the delta of every line opcode, in order.
Compare(a, b, ops, n) ==
    IF n > Len(ops) THEN <<>>
    ELSE LET tag == ops[n][1]
             alo == ops[n][2]
             ahi == ops[n][3]
             blo == ops[n][4]
             bhi == ops[n][5]
         IN  (IF tag = "replace" THEN FancyReplace(a, alo, ahi, b, blo, bhi)
              ELSE IF tag = "delete" THEN Dump("-", a, alo, ahi)
              ELSE IF tag = "insert" THEN Dump("+", b, blo, bhi)
              ELSE Dump(" ", a, alo, ahi))
             \o Compare(a, b, ops, n + 1)

ndiff(a, b) == Compare(a, b, get_opcodes(a, b), 1)

(***************************************************************************)
(* Python dicts.  A str-keyed dict of mixed values is a function on the    *)
(* keys present; the hash -> record dicts keep insertion order and are     *)
(* sequences of <<key, value>> items.                                      *)
(***************************************************************************)
\* d[k] = v
SetKey(d, k, v) == (k :> v) @@ d

\* d.get(k, default)
Get(d, k, default) == IF k \in DOMAIN d THEN d[k] ELSE default

\* k in d, for an insertion-ordered dict
HasKey(d, k) == \E n \in 1..Len(d) : d[n][1] = k

\* PutItem with the first value of a key kept.
PutItem_KeepFirst(d, k, v) == IF HasKey(d, k) THEN d ELSE Append(d, <<k, v>>)

\* d[k] = v on an insertion-ordered dict: a key already present keeps its
\* place and takes the new value.
PutItem(d, k, v) ==
    IF HasKey(d, k)
    THEN [n \in 1..Len(d) |-> IF d[n][1] = k THEN <<k, v>> ELSE d[n]]
    ELSE Append(d, <<k, v>>)

RECURSIVE HashDict(_, _)
\* {img["hash"]: img for img in images}, from image number n on, added to d
HashDict(images, d) ==
    IF Len(images) = 0 THEN d
    ELSE HashDict(Tail(images), PutItem(d, images[1].hash, images[1]))

image_hashes(images) == HashDict(images, <<>>)

RECURSIVE Values(_)
Values(items) ==
    IF Len(items) = 0 THEN <<>> ELSE <<items[1][2]>> \o Values(Tail(items))

\* MissingIn with the records compared in place of the hashes.
MissingIn_ByRecord(d1, d2) ==
    Values(SelectSeq(d1, LAMBDA item : \A n \in 1..Len(d2) : d2[n][2] # item[2]))

\* [img for h, img in d1.items() if h not in d2]
MissingIn(d1, d2) ==
    Values(SelectSeq(d1, LAMBDA item : ~HasKey(d2, item[1])))

(***************************************************************************)
(* compare_presentations: the body of one iteration of the slide loop.     *)
(***************************************************************************)
\* The text check: the diff is recorded when the two texts differ.
CheckText(sd, content1, content2) ==
    IF content1 # content2
    THEN SetKey(SetKey(SetKey(SetKey(sd,
            "has_text_diff", TRUE),
            "text_diff", ndiff(splitlines(content1), splitlines(content2))),
            "ppt1_content", content1),
            "ppt2_content", content2)
    ELSE sd

\* CheckImageCount against the number of distinct hashes of the second slide.
CheckImageCount_Distinct(sd, images1, images2) ==
    IF Len(images1) # Len(image_hashes(images2))
    THEN SetKey(sd, "image_count_different", TRUE)
    ELSE sd

\* CheckImageCount that flags only a first slide with more images.
CheckImageCount_Greater(sd, images1, images2) ==
    IF Len(images1) > Len(images2)
    THEN SetKey(sd, "image_count_different", TRUE)
    ELSE sd

\* The image count check.
CheckImageCount(sd, images1, images2) ==
    IF Len(images1) # Len(images2)
    THEN SetKey(sd, "image_count_different", TRUE)
    ELSE sd

\* RecordImageDiff without the count flag.
RecordImageDiff_NoCount(sd, missing_in_ppt1, missing_in_ppt2) ==
    IF Len(missing_in_ppt1) > 0 \/ Len(missing_in_ppt2) > 0
    THEN SetKey(SetKey(SetKey(sd,
            "has_image_diff", TRUE),
            "images_missing_in_ppt1", missing_in_ppt1),
            "images_missing_in_ppt2", missing_in_ppt2)
    ELSE sd

\* The image diff fires when either missing list is non-empty or the counts
\* differ, and then records the two lists.
RecordImageDiff(sd, missing_in_ppt1, missing_in_ppt2) ==
    IF Len(missing_in_ppt1) > 0 \/ Len(missing_in_ppt2) > 0
       \/ Get(sd, "image_count_different", FALSE)
    THEN SetKey(SetKey(SetKey(sd,
            "has_image_diff", TRUE),
            "images_missing_in_ppt1", missing_in_ppt1),
            "images_missing_in_ppt2", missing_in_ppt2)
    ELSE sd

\* The two missing lists of the hash dicts of the two slides.
CompareHashes(sd, image_hashes1, image_hashes2) ==
    RecordImageDiff(sd, MissingIn(image_hashes2, image_hashes1),
                        MissingIn(image_hashes1, image_hashes2))

\* The image check of one pair of slides.
CheckImages(sd, images1, images2) ==
    CompareHashes(CheckImageCount(sd, images1, images2),
                  image_hashes(images1), image_hashes(images2))

\* slide_differences at the end of the iteration for slide1 and slide2.
SlideDifferences(slide1, slide2) ==
    CheckImages(
        CheckText([slide_number |-> slide1.slide_number,
                   has_text_diff |-> FALSE,
                   has_image_diff |-> FALSE,
                   image_count1 |-> Len(slide1.images),
                   image_count2 |-> Len(slide2.images)],
                  slide1.text_content, slide2.text_content),
        slide1.images, slide2.images)

\* Whether the slide is appended to differences.
HasDifference(sd) == sd.has_text_diff \/ sd.has_image_diff

\* One entry of extra_slides.
ExtraSlide(slide, in_presentation) ==
    [slide_number    |-> slide.slide_number,
     in_presentation |-> in_presentation,
     text_content    |-> slide.text_content,
     image_count     |-> Len(slide.images)]

\* ExtraSlides without the branch for a longer second deck.
ExtraSlides_FirstOnly(s1, s2, lo) ==
    IF Len(s1) > Len(s2)
    THEN [n \in 1..(Len(s1) - lo) |-> ExtraSlide(s1[lo + n], 1)]
    ELSE <<>>

\* The extra_slides list: the tail of the longer deck.
ExtraSlides(s1, s2, lo) ==
    IF Len(s1) > Len(s2)
    THEN [n \in 1..(Len(s1) - lo) |-> ExtraSlide(s1[lo + n], 1)]
    ELSE IF Len(s2) > Len(s1)
    THEN [n \in 1..(Len(s2) - lo) |-> ExtraSlide(s2[lo + n], 2)]
    ELSE <<>>

\* IsIdentical without the slide count.
IsIdentical_NoCount(diffs, count_diff) == Len(diffs) = 0

\* The test that selects the "identical" result.
IsIdentical(diffs, count_diff) == Len(diffs) = 0 /\ ~count_diff

\* None: the value of result and of slide_differences before they are
\* assigned, and what process_image_blob returns for a value it cannot hash.
\* Unbound: slides1 and slides2 before they are assigned.
None == [none |-> TRUE]
Unbound == <<[unbound |-> TRUE]>>

(***************************************************************************)
(* extract_images_from_shape and process_image_blob.  A shape is what the  *)
(* walk reads of it: its shape_type (and whether reading it raises), the   *)
(* outcome of reading its direct image blob and its fill picture blob, and *)
(* its child shapes.  A blob outcome is "absent" (no such attribute),      *)
(* "raises" (the read raises), "notbytes" (a value md5 rejects) or a blob. *)
(***************************************************************************)
PICTURE == 13
PLACEHOLDER == 14
GROUP == 6
AUTO_SHAPE == 1

Blobs == {"blob1", "blob2"}

md5(image_blob) == IF image_blob = "blob1" THEN "h1" ELSE "h2"

Shape(t, image, fill, children) ==
    [shape_type |-> t, type_raises |-> FALSE, image |-> image, fill |-> fill,
     shapes |-> children]

Leaf(t, image, fill) == Shape(t, image, fill, <<>>)

Unreadable == [Leaf(AUTO_SHAPE, "absent", "absent") EXCEPT !.type_raises = TRUE]

LeafPool ==
    { Leaf(PICTURE, "blob1", "absent"),
      Leaf(PICTURE, "raises", "absent"),
      Leaf(PICTURE, "notbytes", "absent"),
      Leaf(PICTURE, "blob1", "blob2"),
      Leaf(PICTURE, "blob2", "raises"),
      Leaf(PLACEHOLDER, "blob2", "absent"),
      Leaf(PLACEHOLDER, "absent", "absent"),
      Leaf(PLACEHOLDER, "raises", "blob1"),
      Leaf(AUTO_SHAPE, "absent", "blob1"),
      Leaf(AUTO_SHAPE, "absent", "absent"),
      Unreadable }

GroupPool ==
    { Shape(GROUP, "absent", "absent", <<>>),
      Shape(GROUP, "absent", "absent",
            <<Leaf(PICTURE, "raises", "absent"), Leaf(PICTURE, "blob1", "absent")>>),
      Shape(GROUP, "absent", "blob2",
            <<Leaf(PICTURE, "blob2", "raises"),
              Shape(GROUP, "absent", "absent",
                    <<Leaf(PLACEHOLDER, "blob2", "absent"),
                      Leaf(PLACEHOLDER, "raises", "blob1")>>),
              Leaf(AUTO_SHAPE, "absent", "blob1")>>),
      Shape(GROUP, "absent", "absent",
            <<Leaf(PICTURE, "blob2", "absent"), Unreadable,
              Leaf(PICTURE, "blob1", "absent")>>) }

ShapePool == LeafPool \cup GroupPool

SlideShapes == SeqsUpTo(ShapePool, MaxShapes)

\* str(shape_type) in the f-string of debug_info.
Str(t) ==
    CASE t = PICTURE -> "13"
      [] t = PLACEHOLDER -> "14"
      [] t = GROUP -> "6"
      [] OTHER -> "1"

DebugInfo(parent_info, shape_type) == parent_info \o <<" -> Shape type: ", Str(shape_type)>>

\* The record of a blob, or None when md5 rejects the value.
process_image_blob(image_blob, debug_info) ==
    IF image_blob \in Blobs
    THEN [hash |-> md5(image_blob), debug_info |-> debug_info]
    ELSE None

\* if img_data: images.append(img_data)
AppendIfAny(img_data) == IF img_data = None THEN <<>> ELSE <<img_data>>

\* try: read the blob, process it, append the record; except: pass.
BlobImages(source, debug_info) ==
    IF source \in {"absent", "raises"}
    THEN <<>>
    ELSE AppendIfAny(process_image_blob(source, debug_info))

DirectImages(shape, debug_info) ==
    IF shape.shape_type = PICTURE THEN BlobImages(shape.image, debug_info) ELSE <<>>

FillImages(shape, debug_info) == BlobImages(shape.fill, debug_info \o <<" (from fill)">>)

PlaceholderImages(shape, debug_info) ==
    IF shape.shape_type = PLACEHOLDER
    THEN BlobImages(shape.image, debug_info \o <<" (from placeholder)">>)
    ELSE <<>>

RECURSIVE extract_images_from_shape(_, _)
RECURSIVE ChildImages(_, _, _)

\* The loop over shape.shapes from child n on: an exception out of a child's
\* walk leaves the loop, keeping what the children before it gave.
ExtendOrLeave(children, n, parent_info, child) ==
    IF child.raised
    THEN <<>>
    ELSE child.images \o ChildImages(children, n + 1, parent_info)

ChildImages(children, n, parent_info) ==
    IF n > Len(children)
    THEN <<>>
    ELSE ExtendOrLeave(children, n, parent_info,
                       extract_images_from_shape(children[n], parent_info))

GroupImages(shape, debug_info) ==
    IF shape.shape_type = GROUP
    THEN ChildImages(shape.shapes, 1, debug_info \o <<" (group child)">>)
    ELSE <<>>

ShapeImages_FillOnlyWithoutPicture(shape, debug_info) ==
    (IF DirectImages(shape, debug_info) # <<>>
     THEN DirectImages(shape, debug_info)
     ELSE FillImages(shape, debug_info))
        \o PlaceholderImages(shape, debug_info)
        \o GroupImages(shape, debug_info)

\* The four methods in order, each under its own try.
ShapeImages(shape, debug_info) ==
    DirectImages(shape, debug_info)
        \o FillImages(shape, debug_info)
        \o PlaceholderImages(shape, debug_info)
        \o GroupImages(shape, debug_info)

\* The outcome of a call: the exception of reading shape_type, which stands
\* before the try, or the list returned.
extract_images_from_shape(shape, parent_info) ==
    IF shape.type_raises
    THEN [raised |-> TRUE, images |-> <<>>]
    ELSE [raised |-> FALSE,
          images |-> ShapeImages(shape, DebugInfo(parent_info, shape.shape_type))]

(***************************************************************************)
(* State.  pc is the statement compare_presentations stands at.            *)
(***************************************************************************)
InitCompare(files) ==
    /\ file1_content \in files
    /\ file2_content \in files
    /\ pc = "extract1"
    /\ exc = ""
    /\ slides1 = Unbound
    /\ slides2 = Unbound
    /\ slide_count_diff = FALSE
    /\ slide_count_message = <<>>
    /\ min_slides = 0
    /\ i = 0
    /\ differences = <<>>
    /\ identical_count = 0
    /\ text_diff_count = 0
    /\ image_diff_count = 0
    /\ slide_differences = None
    /\ extra_slides = <<>>
    /\ result = None

\* A comparison of two files: no shape loop is modelled step by step.
InitOver(files) ==
    /\ InitCompare(files)
    /\ slide_shapes = <<>>
    /\ shape_index = 0
    /\ slide_images = <<>>
    /\ walk_pc = "off"

Init == InitOver(MainFiles)
InitImages == InitOver(ImageFiles)
InitText == InitOver(TextFiles)

\* An exception leaves the try block for the handler.
Raise(e) == pc' = "except" /\ exc' = e

\* ExtractFirst with a failed parse taken for an empty deck.
ExtractFirst_Swallow ==
    /\ pc = "extract1"
    /\ slides1' = IF ParseFails(file1_content) THEN <<>>
                  ELSE extract_content_from_pptx(file1_content)
    /\ pc' = "extract2"
    /\ UNCHANGED walk_vars
    /\ UNCHANGED <<file1_content, file2_content, exc, slides2, slide_count_diff,
                   slide_count_message, min_slides, i, differences,
                   identical_count, text_diff_count, image_diff_count,
                   slide_differences, extra_slides, result>>

\* slides1 = extract_content_from_pptx(file1_content)
ExtractFirst ==
    /\ pc = "extract1"
    /\ IF ParseFails(file1_content)
       THEN Raise("PackageNotFoundError") /\ UNCHANGED slides1
       ELSE /\ slides1' = extract_content_from_pptx(file1_content)
            /\ pc' = "extract2"
            /\ UNCHANGED exc
    /\ UNCHANGED walk_vars
    /\ UNCHANGED <<file1_content, file2_content, slides2, slide_count_diff,
                   slide_count_message, min_slides, i, differences,
                   identical_count, text_diff_count, image_diff_count,
                   slide_differences, extra_slides, result>>

\* ExtractSecond with a failed parse taken for an empty deck.
ExtractSecond_Swallow ==
    /\ pc = "extract2"
    /\ slides2' = IF ParseFails(file2_content) THEN <<>>
                  ELSE extract_content_from_pptx(file2_content)
    /\ pc' = "count"
    /\ UNCHANGED walk_vars
    /\ UNCHANGED <<file1_content, file2_content, exc, slides1, slide_count_diff,
                   slide_count_message, min_slides, i, differences,
                   identical_count, text_diff_count, image_diff_count,
                   slide_differences, extra_slides, result>>

\* slides2 = extract_content_from_pptx(file2_content)
ExtractSecond ==
    /\ pc = "extract2"
    /\ IF ParseFails(file2_content)
       THEN Raise("PackageNotFoundError") /\ UNCHANGED slides2
       ELSE /\ slides2' = extract_content_from_pptx(file2_content)
            /\ pc' = "count"
            /\ UNCHANGED exc
    /\ UNCHANGED walk_vars
    /\ UNCHANGED <<file1_content, file2_content, slides1, slide_count_diff,
                   slide_count_message, min_slides, i, differences,
                   identical_count, text_diff_count, image_diff_count,
                   slide_differences, extra_slides, result>>

\* The slide count check and the initialisation of the loop.
CountSlides ==
    /\ pc = "count"
    /\ slide_count_diff' = (Len(slides1) # Len(slides2))
    /\ slide_count_message' =
          IF Len(slides1) # Len(slides2)
          THEN <<"Presentations have different number of slides: ",
                 Len(slides1), " vs ", Len(slides2), ". Comparing the first ",
                 Min(Len(slides1), Len(slides2)), " slides.">>
          ELSE <<>>
    /\ differences' = <<>>
    /\ identical_count' = 0
    /\ text_diff_count' = 0
    /\ image_diff_count' = 0
    /\ min_slides' = Min(Len(slides1), Len(slides2))
    /\ i' = 0
    /\ pc' = "loop"
    /\ UNCHANGED walk_vars
    /\ UNCHANGED <<file1_content, file2_content, exc, slides1, slides2,
                   slide_differences, extra_slides, result>>

\* One iteration of: for i in range(min_slides)
CompareSlide ==
    /\ pc = "loop"
    /\ i < min_slides
    /\ \E sd \in {SlideDifferences(slides1[i + 1], slides2[i + 1])} :
           /\ slide_differences' = sd
           /\ text_diff_count' = text_diff_count + (IF sd.has_text_diff THEN 1 ELSE 0)
           /\ image_diff_count' = image_diff_count + (IF sd.has_image_diff THEN 1 ELSE 0)
           /\ IF HasDifference(sd)
              THEN differences' = Append(differences, sd) /\ UNCHANGED identical_count
              ELSE identical_count' = identical_count + 1 /\ UNCHANGED differences
    /\ i' = i + 1
    /\ UNCHANGED walk_vars
    /\ UNCHANGED <<file1_content, file2_content, pc, exc, slides1, slides2,
                   slide_count_diff, slide_count_message, min_slides,
                   extra_slides, result>>

\* The loop is exhausted: build extra_slides.
AddExtraSlides ==
    /\ pc = "loop"
    /\ i >= min_slides
    /\ extra_slides' = ExtraSlides(slides1, slides2, min_slides)
    /\ pc' = "result"
    /\ UNCHANGED walk_vars
    /\ UNCHANGED <<file1_content, file2_content, exc, slides1, slides2,
                   slide_count_diff, slide_count_message, min_slides, i,
                   differences, identical_count, text_diff_count,
                   image_diff_count, slide_differences, result>>

\* Generate result
GenerateResult ==
    /\ pc = "result"
    /\ result' =
          IF IsIdentical(differences, slide_count_diff)
          THEN [identical   |-> TRUE,
                summary     |-> <<"All ", Len(slides1),
                                  " slides have identical text and image content">>,
                differences |-> <<>>]
          ELSE [identical   |-> FALSE,
                summary     |-> <<"Found differences in ", Len(differences),
                                  " out of ", min_slides, " compared slides (",
                                  identical_count, " slides identical)">>,
                detailed_summary |-> <<"Text differences: ", text_diff_count,
                                       " slides, Image differences: ",
                                       image_diff_count, " slides">>,
                differences |-> differences,
                extra_slides |-> extra_slides,
                slide_count_different |-> slide_count_diff,
                slide_count_message |->
                    IF slide_count_diff THEN slide_count_message ELSE <<>>]
    /\ pc' = "returned"
    /\ UNCHANGED walk_vars
    /\ UNCHANGED <<file1_content, file2_content, exc, slides1, slides2,
                   slide_count_diff, slide_count_message, min_slides, i,
                   differences, identical_count, text_diff_count,
                   image_diff_count, slide_differences, extra_slides>>

\* Any statement of the comparison may raise (MemoryError is an Exception).
ComparisonFails ==
    /\ pc \in {"count", "loop", "result"}
    /\ Raise("MemoryError")
    /\ UNCHANGED walk_vars
    /\ UNCHANGED <<file1_content, file2_content, slides1, slides2,
                   slide_count_diff, slide_count_message, min_slides, i,
                   differences, identical_count, text_diff_count,
                   image_diff_count, slide_differences, extra_slides, result>>

\* The result the handler builds from the exception.
ErrorResult(e) ==
    [identical     |-> FALSE,
     summary       |-> <<"Error comparing presentations: ", e>>,
     error_details |-> <<"Traceback (most recent call last):", e>>,
     differences   |-> <<>>,
     error         |-> TRUE]

\* except Exception as e
HandleException ==
    /\ pc = "except"
    /\ result' = ErrorResult(exc)
    /\ pc' = "returned"
    /\ UNCHANGED walk_vars
    /\ UNCHANGED <<file1_content, file2_content, exc, slides1, slides2,
                   slide_count_diff, slide_count_message, min_slides, i,
                   differences, identical_count, text_diff_count,
                   image_diff_count, slide_differences, extra_slides>>

Next ==
    \/ ExtractFirst
    \/ ExtractSecond
    \/ CountSlides
    \/ CompareSlide
    \/ AddExtraSlides
    \/ GenerateResult
    \/ ComparisonFails
    \/ HandleException

Spec == Init /\ [][Next]_vars
SpecImages == InitImages /\ [][Next]_vars
SpecText == InitText /\ [][Next]_vars

(***************************************************************************)
(* The shape loop of the first slide in extract_content_from_pptx.         *)
(***************************************************************************)
InitShapes ==
    /\ InitCompare({CorruptFile})
    /\ slide_shapes \in SlideShapes
    /\ shape_index = 0
    /\ slide_images = <<>>
    /\ walk_pc = "shapes"

\* One iteration: images = extract_images_from_shape(shape, "Slide 1") and
\* slide_images.extend(images); an exception leaves the loop.
ExtractShape ==
    /\ walk_pc = "shapes"
    /\ shape_index < Len(slide_shapes)
    /\ \E images \in {extract_images_from_shape(slide_shapes[shape_index + 1],
                                                <<"Slide ", "1">>)} :
          IF images.raised
          THEN /\ walk_pc' = "raised"
               /\ UNCHANGED <<shape_index, slide_images>>
          ELSE /\ slide_images' = slide_images \o images.images
               /\ shape_index' = shape_index + 1
               /\ UNCHANGED walk_pc
    /\ UNCHANGED slide_shapes
    /\ UNCHANGED compare_vars

\* The loop is exhausted and the slide record is appended.
FinishSlide ==
    /\ walk_pc = "shapes"
    /\ shape_index = Len(slide_shapes)
    /\ walk_pc' = "done"
    /\ UNCHANGED <<slide_shapes, shape_index, slide_images>>
    /\ UNCHANGED compare_vars

NextShapes ==
    \/ ExtractShape
    \/ FinishSlide

SpecShapes == InitShapes /\ [][NextShapes]_vars

(***************************************************************************)
(* Properties.                                                             *)
(***************************************************************************)
\* compare_presentations returned from the try block.
ReturnedResult == pc = "returned" /\ exc = ""

\* At least one pair of slides was compared; slide_differences is the record
\* of slide number i.
Compared == slide_differences # None /\ i >= 1

HashSet(images) == {images[n].hash : n \in 1..Len(images)}

\* C1: comparing a deck with itself yields identical = true, no slide diffs
\* and an identical-slide count equal to the length of the deck.
C1_SelfCompare ==
    (ReturnedResult /\ slides1 = slides2) =>
        /\ result.identical = TRUE
        /\ result.differences = <<>>
        /\ differences = <<>>
        /\ identical_count = Len(slides1)

C1_Witness ==
    /\ ReturnedResult
    /\ slides1 = slides2
    /\ Len(slides1) >= 2
    /\ Len(slides1[1].images) = 2
    /\ Len(slides1[2].text_content) > 0
    /\ result.identical = TRUE

C3_IdenticalIff ==
    ReturnedResult =>
        (result.identical = TRUE
            <=> (differences = <<>> /\ Len(slides1) = Len(slides2)))

C3_Witness ==
    /\ ReturnedResult
    /\ Len(slides1) # Len(slides2)
    /\ min_slides >= 1
    /\ differences = <<>>
    /\ result.identical = FALSE

\* C4: when the decks differ in length the result flags it and lists the
\* tail of the longer deck: abs(len(A) - len(B)) entries, tagged with the
\* longer deck, numbered min+1 .. max in order, each with its slide's text
\* and image count.
C4_ExtraSlides ==
    (ReturnedResult /\ Len(slides1) # Len(slides2)) =>
        LET longer == IF Len(slides1) > Len(slides2) THEN slides1 ELSE slides2
            owner  == IF Len(slides1) > Len(slides2) THEN 1 ELSE 2
            lo     == Min(Len(slides1), Len(slides2))
            hi     == Max(Len(slides1), Len(slides2))
        IN  /\ result.slide_count_different = TRUE
            /\ Len(result.extra_slides) = hi - lo
            /\ \A n \in 1..(hi - lo) :
                  /\ result.extra_slides[n].in_presentation = owner
                  /\ result.extra_slides[n].slide_number = lo + n
                  /\ result.extra_slides[n].text_content = longer[lo + n].text_content
                  /\ result.extra_slides[n].image_count = Len(longer[lo + n].images)

C4_Witness ==
    /\ ReturnedResult
    /\ Len(slides1) = 1
    /\ Len(slides2) >= 2
    /\ Len(differences) = 1
    /\ Len(result.extra_slides) >= 1
    /\ result.extra_slides[1].image_count = 2

\* C5: when the extraction of either deck fails, or the comparison fails,
\* compare_presentations returns the error result: error = true,
\* identical = false, a non-empty message and no slide diffs.
C5_ErrorResult ==
    (/\ pc = "returned"
     /\ (ParseFails(file1_content) \/ ParseFails(file2_content) \/ exc # ""))
    => /\ "error" \in DOMAIN result
       /\ result.error = TRUE
       /\ result.identical = FALSE
       /\ Len(result.summary) > 0
       /\ result.differences = <<>>

C5_Witness ==
    /\ pc = "returned"
    /\ ~ParseFails(file1_content)
    /\ Len(file1_content.slides) >= 1
    /\ ParseFails(file2_content)
    /\ result.error = TRUE

\* The records of xs whose hash does not occur among the hashes of ys.
AbsentFrom(xs, ys) == SelectSeq(xs, LAMBDA img : img.hash \notin HashSet(ys))

\* The first and the last position of hash h in images.
FirstAt(images, h) ==
    CHOOSE n \in 1..Len(images) :
        images[n].hash = h /\ \A m \in 1..(n - 1) : images[m].hash # h
LastAt(images, h) ==
    CHOOSE n \in 1..Len(images) :
        images[n].hash = h /\ \A m \in (n + 1)..Len(images) : images[m].hash # h

\* only holds one record for every hash of xs that does not occur in ys: the
\* last record of xs with that hash, in the order the hashes first occur in xs.
OnePerAbsentHash(only, xs, ys) ==
    /\ Len(only) = Cardinality(HashSet(xs) \ HashSet(ys))
    /\ \A n \in 1..Len(only) :
          /\ only[n].hash \in HashSet(xs) \ HashSet(ys)
          /\ only[n] = xs[LastAt(xs, only[n].hash)]
    /\ \A n, m \in 1..Len(only) :
          n < m => FirstAt(xs, only[n].hash) < FirstAt(xs, only[m].hash)

\* The lists shown as "images only in the first / second presentation".
ImagesOnlyInA(sd) == Get(sd, "images_missing_in_ppt2", <<>>)
ImagesOnlyInB(sd) == Get(sd, "images_missing_in_ppt1", <<>>)

\* C6 as stated: for every compared pair of slides, imagesOnlyInB is exactly
\* the image records of B's slide whose hash does not occur in A's slide, and
\* imagesOnlyInA exactly those of A's slide whose hash does not occur in B's.
C6_ExactlyAbsentRecords ==
    Compared =>
        /\ ImagesOnlyInB(slide_differences)
              = AbsentFrom(slides2[i].images, slides1[i].images)
        /\ ImagesOnlyInA(slide_differences)
              = AbsentFrom(slides1[i].images, slides2[i].images)

\* C6 amended: for every compared pair of slides, imagesOnlyInB holds one
\* record per distinct hash of B's slide that does not occur in A's slide
\* (the last record of B's slide with that hash, hashes in order of first
\* occurrence), and imagesOnlyInA likewise for A's slide; where no hash
\* repeats within a slide these are exactly the records whose hash is absent
\* from the other slide; A = [h1], B = [h1, h2] gives imagesOnlyInA empty,
\* imagesOnlyInB = [record h2] and the image count flag set.
C6_OneRecordPerAbsentHash ==
    Compared =>
        LET a == slides1[i].images
            b == slides2[i].images
        IN  /\ OnePerAbsentHash(ImagesOnlyInB(slide_differences), b, a)
            /\ OnePerAbsentHash(ImagesOnlyInA(slide_differences), a, b)
            /\ (Cardinality(HashSet(b)) = Len(b))
                  => ImagesOnlyInB(slide_differences) = AbsentFrom(b, a)
            /\ (Cardinality(HashSet(a)) = Len(a))
                  => ImagesOnlyInA(slide_differences) = AbsentFrom(a, b)
            /\ (Len(a) = 1 /\ Len(b) = 2 /\ a[1].hash = "h1"
                /\ b[1].hash = "h1" /\ b[2].hash = "h2")
                  => /\ ImagesOnlyInA(slide_differences) = <<>>
                     /\ ImagesOnlyInB(slide_differences) = <<b[2]>>
                     /\ Get(slide_differences, "image_count_different", FALSE)

C6_Witness ==
    /\ Compared
    /\ Len(slides1[i].images) = 1
    /\ slides1[i].images[1].hash = "h1"
    /\ Len(slides2[i].images) = 2
    /\ slides2[i].images[1].hash = "h1"
    /\ slides2[i].images[2].hash = "h2"
    /\ ImagesOnlyInB(slide_differences) = <<slides2[i].images[2]>>

\* C7: swapping the two decks swaps the image-only lists, and a slide has an
\* image diff in one order exactly when it has one in the other: the record
\* of the compared pair against the record of the same pair swapped.
C7_SwapSymmetry ==
    Compared =>
        LET swapped == SlideDifferences(slides2[i], slides1[i])
        IN  /\ ImagesOnlyInA(slide_differences) = ImagesOnlyInB(swapped)
            /\ ImagesOnlyInB(slide_differences) = ImagesOnlyInA(swapped)
            /\ slide_differences.has_image_diff = swapped.has_image_diff

C7_Witness ==
    /\ Compared
    /\ Len(slides1[i].images) = 2
    /\ Len(slides2[i].images) = 1
    /\ Len(ImagesOnlyInA(slide_differences)) = 1
    /\ Len(ImagesOnlyInB(slide_differences)) = 1
    /\ ImagesOnlyInB(SlideDifferences(slides2[i], slides1[i]))
          = ImagesOnlyInA(slide_differences)

\* The two-character code of a delta line and the line behind it.
Code(op) == SubSeq(op, 1, 2)
Line(op) == SubSeq(op, 3, Len(op))

RECURSIVE Lines(_)
Lines(ops) == IF Len(ops) = 0 THEN <<>> ELSE <<Line(ops[1])>> \o Lines(Tail(ops))

\* C8: for every compared slide whose texts differ, every op of the recorded
\* text diff is unchanged, added or removed; without the added ops the diff
\* is the lines of textA in order, without the removed ops those of textB.
C8_DiffReconstitutes ==
    (Compared /\ slide_differences.has_text_diff) =>
        LET ops == slide_differences.text_diff
        IN  /\ \A n \in 1..Len(ops) :
                  Code(ops[n]) \in { <<" ", " ">>, <<"+", " ">>, <<"-", " ">> }
            /\ Lines(SelectSeq(ops, LAMBDA op : Code(op) # <<"+", " ">>))
                  = splitlines(slides1[i].text_content)
            /\ Lines(SelectSeq(ops, LAMBDA op : Code(op) # <<"-", " ">>))
                  = splitlines(slides2[i].text_content)

\* C9: a step that compares a pair of slides with different image counts
\* sets the count flag, fires the image diff, appends the slide's record and
\* increments image_diff_count, whatever the two missing lists hold; with
\* equal counts the flag is not set.
C9_CountMismatch ==
    [][(pc = "loop" /\ i' = i + 1) =>
        IF Len(slides1[i'].images) # Len(slides2[i'].images)
        THEN /\ "image_count_different" \in DOMAIN slide_differences'
             /\ slide_differences'.image_count_different = TRUE
             /\ slide_differences'.has_image_diff = TRUE
             /\ differences' = Append(differences, slide_differences')
             /\ image_diff_count' = image_diff_count + 1
        ELSE "image_count_different" \notin DOMAIN slide_differences']_vars

C9_Witness ==
    /\ Compared
    /\ Len(slides1[i].images) # Len(slides2[i].images)
    /\ slide_differences.has_image_diff
    /\ slide_differences.images_missing_in_ppt1 = <<>>
    /\ slide_differences.images_missing_in_ppt2 = <<>>
    /\ differences[Len(differences)] = slide_differences
    /\ image_diff_count >= 1

\* C10: the steps run in the order extract A, extract B, compare: deck B is
\* extracted after deck A only, a pair of slides is compared only once both
\* decks are extracted, a failed extraction goes to the handler with no
\* slide compared and ends in the error result, and nothing runs after the
\* return.
C10_StepOrder ==
    [][/\ slides2' # Unbound => slides1 # Unbound
       /\ slide_differences' # slide_differences
             => (slides1 # Unbound /\ slides2 # Unbound)
       /\ (\/ pc = "extract1" /\ ParseFails(file1_content)
           \/ pc = "extract2" /\ ParseFails(file2_content))
             => (pc' = "except" /\ slides2' = Unbound /\ slide_differences' = None)
       /\ pc = "except" => (pc' = "returned" /\ result'.error = TRUE)
       /\ (ParseFails(file1_content) \/ ParseFails(file2_content))
             => (i' = 0 /\ slide_differences' = None
                 /\ pc' \notin {"count", "loop", "result"})
       /\ pc # "returned"]_vars

C10_Witness ==
    /\ pc = "returned"
    /\ ~ParseFails(file1_content)
    /\ ParseFails(file2_content)
    /\ slides1 # Unbound
    /\ Len(slides1) >= 1
    /\ slides2 = Unbound
    /\ slide_differences = None
    /\ result.error = TRUE

\* The comparison loop has run over every position 1 .. min_slides.
LoopDone ==
    /\ exc = ""
    /\ \/ pc = "loop" /\ i >= min_slides
       \/ pc \in {"result", "returned"}

\* C12: after the comparison loop over the positions 1 .. n, with
\* n = min(len(A), len(B)), every position is accounted for once:
\* len(slideDiffs) + identicalCount = n; the slide diffs are in strictly
\* ascending slide index, each index in 1 .. n and the position of the slide
\* in its deck; each has its text flag or its image flag set; textDiffCount
\* and imageDiffCount are the numbers of slide diffs with the flag set.
C12_LoopAccounting ==
    LoopDone =>
        /\ min_slides = Min(Len(file1_content.slides), Len(file2_content.slides))
        /\ Len(differences) + identical_count = min_slides
        /\ \A k \in 1..Len(differences) :
              LET n == differences[k].slide_number
              IN  /\ n \in 1..min_slides
                  /\ \A m \in 1..(k - 1) : differences[m].slide_number < n
                  /\ differences[k].has_text_diff
                        = (Join(NL, file1_content.slides[n].slide_text)
                             # Join(NL, file2_content.slides[n].slide_text))
                  /\ differences[k].image_count1
                        = Len(file1_content.slides[n].slide_images)
                  /\ differences[k].image_count2
                        = Len(file2_content.slides[n].slide_images)
                  /\ differences[k].has_text_diff \/ differences[k].has_image_diff
        /\ text_diff_count
              = Cardinality({k \in 1..Len(differences) : differences[k].has_text_diff})
        /\ image_diff_count
              = Cardinality({k \in 1..Len(differences) : differences[k].has_image_diff})

C12_Witness ==
    /\ LoopDone
    /\ min_slides = 2
    /\ identical_count = 1
    /\ Len(differences) = 1
    /\ differences[1].slide_number = 2
    /\ differences[1].has_text_diff
    /\ differences[1].has_image_diff
    /\ text_diff_count = 1
    /\ image_diff_count = 1

\* Reading the kind tag succeeds on the shape and on every descendant.
RECURSIVE KindReadable(_)
KindReadable(shape) ==
    /\ ~shape.type_raises
    /\ \A n \in 1..Len(shape.shapes) : KindReadable(shape.shapes[n])

RECURSIVE Flatten(_)
Flatten(seqs) == IF seqs = <<>> THEN <<>> ELSE Head(seqs) \o Flatten(Tail(seqs))

\* The shape and its descendants through group shapes, in encounter order.
RECURSIVE Nodes(_)
Nodes(shape) ==
    <<shape>> \o (IF shape.shape_type = GROUP
                  THEN Flatten([n \in 1..Len(shape.shapes) |-> Nodes(shape.shapes[n])])
                  ELSE <<>>)

\* The sources of one shape that yield a blob, as <<hash, kind>>.
Source(kind, value) == IF value \in Blobs THEN <<(<<md5(value), kind>>)>> ELSE <<>>

Sources(shape) ==
    (IF shape.shape_type = PICTURE THEN Source("direct", shape.image) ELSE <<>>)
        \o Source("fill", shape.fill)
        \o (IF shape.shape_type = PLACEHOLDER THEN Source("placeholder", shape.image) ELSE <<>>)

SourcesOfAll(nodes) == Flatten([n \in 1..Len(nodes) |-> Sources(nodes[n])])

\* The non-failing sources of the first k shapes of the slide.
SourcesOfFirst(k) ==
    Flatten([n \in 1..k |-> SourcesOfAll(Nodes(slide_shapes[n]))])

KindOf(debug_info) ==
    CASE debug_info[Len(debug_info)] = " (from fill)" -> "fill"
      [] debug_info[Len(debug_info)] = " (from placeholder)" -> "placeholder"
      [] OTHER -> "direct"

Collected ==
    [n \in 1..Len(slide_images) |->
        <<slide_images[n].hash, KindOf(slide_images[n].debug_info)>>]

====
